---- MODULE Spec2Model ----
(***************************************************************************)
(* Model of backend/routes/translation.py: the provider-dispatch and       *)
(* normalisation layer of the MARGSATHI translation routes.                *)
(*                                                                         *)
(* Python strings are sequences of one-character strings, so that          *)
(* str.upper, str.join, str.strip and str.startswith are computed          *)
(* character by character.  An Optional value is <<>> (None) or <<v>>.     *)
(* A float f in [0,1] is the integer 120*f (0.95 is 114, 0.9 is 108), a    *)
(* scale in which the means of the modelled OCR confidences are exact.     *)
(***************************************************************************)
EXTENDS Integers, Sequences, FiniteSets, TLC

VARIABLES
    GOOGLETRANS_AVAILABLE,  \* module flag set by the import at lines 17-21
    EASYOCR_READER,         \* module global: None or the reader handle
    OCR_AVAILABLE,          \* module flag: the value setup_ocr() returned
    setup_ocr_calls,        \* how many times setup_ocr has run
    suspended,              \* /translate-image calls waiting in `await file.read()`
    done                    \* the call that completed last, with its outcome

vars == <<GOOGLETRANS_AVAILABLE, EASYOCR_READER, OCR_AVAILABLE,
          setup_ocr_calls, suspended, done>>

globals == <<GOOGLETRANS_AVAILABLE, EASYOCR_READER, OCR_AVAILABLE, setup_ocr_calls>>

----------------------------------------------------------------------------
(* Bounds *)

MaxFrags == 2        \* most fragments one OCR result carries
MaxSuspended == 1    \* most /translate-image calls suspended at once

----------------------------------------------------------------------------
(* Python values *)

None == <<>>
Some(v) == <<v>>

Float(n, d) == (n * 120) \div d

Lower == <<"a","b","c","d","e","f","g","h","i","j","k","l","m",
           "n","o","p","q","r","s","t","u","v","w","x","y","z">>
Upper == <<"A","B","C","D","E","F","G","H","I","J","K","L","M",
           "N","O","P","Q","R","S","T","U","V","W","X","Y","Z">>

Whitespace == {" ", "\t", "\n", "\r"}

\* str.upper()
str_upper(s) ==
    [i \in 1..Len(s) |->
        IF \E k \in 1..Len(Lower) : Lower[k] = s[i]
        THEN Upper[CHOOSE k \in 1..Len(Lower) : Lower[k] = s[i]]
        ELSE s[i]]

\* str.strip()
str_strip(s) ==
    LET keep == {i \in 1..Len(s) : s[i] \notin Whitespace}
    IN  IF keep = {} THEN <<>>
        ELSE SubSeq(s, CHOOSE i \in keep : \A j \in keep : i <= j,
                       CHOOSE i \in keep : \A j \in keep : i >= j)

\* str.startswith(prefix)
str_startswith(s, prefix) ==
    /\ Len(s) >= Len(prefix)
    /\ SubSeq(s, 1, Len(prefix)) = prefix

\* sep.join(parts)
RECURSIVE str_join(_, _)
str_join(sep, parts) ==
    IF parts = <<>> THEN <<>>
    ELSE IF Len(parts) = 1 THEN parts[1]
    ELSE parts[1] \o sep \o str_join(sep, Tail(parts))

\* sum(xs)
RECURSIVE sum(_)
sum(xs) == IF xs = <<>> THEN 0 ELSE xs[1] + sum(Tail(xs))

\* dict.get(key, default)
dict_get(d, key, default) == IF key \in DOMAIN d THEN d[key] ELSE default

----------------------------------------------------------------------------
(* Language registry *)

en == <<"e","n">>
hi == <<"h","i">>
bn == <<"b","n">>
ta == <<"t","a">>
te == <<"t","e">>
mr == <<"m","r">>
kn == <<"k","n">>
ml == <<"m","l">>
gu == <<"g","u">>
auto == <<"a","u","t","o">>

LanguageCode == {en, hi, bn, ta, te, mr, kn, ml, gu}

LANGUAGE_ORDER == <<en, hi, bn, ta, te, mr, kn, ml, gu>>

LANGUAGE_NAMES ==
    [c \in LanguageCode |->
        CASE c = en -> "English"
          [] c = hi -> "Hindi"
          [] c = bn -> "Bengali"
          [] c = ta -> "Tamil"
          [] c = te -> "Telugu"
          [] c = mr -> "Marathi"
          [] c = kn -> "Kannada"
          [] c = ml -> "Malayalam"
          [] c = gu -> "Gujarati"]

DEEP_TRANSLATOR_CODES == [c \in LanguageCode |-> c]

----------------------------------------------------------------------------
(* Exceptions and the results of calls *)

HTTPException(status_code, msg, upstream) ==
    [type |-> "HTTPException", status_code |-> status_code, detail |-> <<msg, upstream>>]

Exception(type, msg) ==
    [type |-> type, status_code |-> 0, detail |-> <<"", msg>>]

NoExc == [type |-> "none", status_code |-> 0, detail |-> <<"", "">>]

\* A call either returns a value or raises; calls is the log of the
\* external engines it invoked, in order.
Return(val, calls) == [raised |-> FALSE, exc |-> NoExc, val |-> val, calls |-> calls]
Raise(exc, calls) == [raised |-> TRUE, exc |-> exc, val |-> <<>>, calls |-> calls]

----------------------------------------------------------------------------
(* What the external engines may answer *)

UpstreamErrors == {"timeout"}

TranslatedTexts == {<<"x">>}

BackendConfidences == {None, Some(Float(6, 10))}

\* translator.translate(...): returns a result or raises
TranslatorAnswers ==
    [kind : {"ok"}, text : TranslatedTexts, confidence : BackendConfidences, msg : {""}]
    \cup [kind : {"raise"}, text : {<<>>}, confidence : {None}, msg : UpstreamErrors]

----------------------------------------------------------------------------
(* Translation providers *)

\* Variant of translate_with_deep_translator: a failed call is tried once more
translate_with_deep_translator_retry(text, source_lang, target_lang, answer) ==
    LET source_code == dict_get(DEEP_TRANSLATOR_CODES, source_lang, auto)
        target_code == dict_get(DEEP_TRANSLATOR_CODES, target_lang, en)
        call == [engine |-> "GoogleTranslator", text |-> text,
                 source |-> Some(source_code), target |-> target_code, ret |-> answer]
    IN  IF answer.kind = "raise"
        THEN Raise(HTTPException(500, "Translation failed: ", answer.msg), <<call, call>>)
        ELSE Return(<<answer.text, Some(Float(95, 100))>>, <<call>>)

translate_with_deep_translator(text, source_lang, target_lang, answer) ==
    LET source_code == dict_get(DEEP_TRANSLATOR_CODES, source_lang, auto)
        target_code == dict_get(DEEP_TRANSLATOR_CODES, target_lang, en)
        call == [engine |-> "GoogleTranslator", text |-> text,
                 source |-> Some(source_code), target |-> target_code, ret |-> answer]
    IN  IF answer.kind = "raise"
        THEN Raise(HTTPException(500, "Translation failed: ", answer.msg), <<call>>)
        ELSE Return(<<answer.text, Some(Float(95, 100))>>, <<call>>)

translate_with_googletrans(text, source_lang, target_lang, answer, googletrans) ==
    IF ~googletrans
    THEN Raise(HTTPException(503,
                 "Google Translate API not available. Install googletrans.", ""), <<>>)
    ELSE LET call == [engine |-> "googletrans", text |-> text,
                      source |-> IF source_lang # auto THEN Some(source_lang) ELSE None,
                      target |-> target_lang, ret |-> answer]
         IN  IF answer.kind = "raise"
             THEN Raise(HTTPException(500, "Google Translate failed: ", answer.msg), <<call>>)
             ELSE Return(<<answer.text,
                           IF answer.confidence = None THEN Some(Float(9, 10))
                           ELSE answer.confidence>>, <<call>>)

\* Variant of mock_translate: the marker keeps the case of the language code
mock_translate_no_upper(text, target_lang) ==
    LET marker == <<"[">> \o target_lang \o <<"]">>
    IN  Return(<<marker \o <<" ">> \o text, Some(Float(1, 1))>>, <<>>)

mock_translate(text, target_lang) ==
    LET marker == <<"[">> \o str_upper(target_lang) \o <<"]">>
    IN  Return(<<marker \o <<" ">> \o text, Some(Float(1, 1))>>, <<>>)

----------------------------------------------------------------------------
(* POST /translate *)

deep == "deep"
google == "google"
mock == "mock"

TranslationResponse(original_text, translated_text, source_lang, target_lang, provider, confidence, is_mock) ==
    [original_text |-> original_text, translated_text |-> translated_text,
     source_lang |-> source_lang, target_lang |-> target_lang,
     provider |-> provider, confidence |-> confidence, is_mock |-> is_mock]

\* Variant of resolve_auto: the source language is reported as it was resolved
resolve_auto_kept(source_lang) == source_lang

\* Lines 215-216: `if source_lang == "auto": source_lang = "en"`
resolve_auto(source_lang) == IF source_lang = auto THEN en ELSE source_lang

translate_text(payload, answer, googletrans) ==
    LET source_lang == IF payload.source_lang = None THEN auto ELSE payload.source_lang[1]
        target_lang == payload.target_lang
        r == IF payload.provider = Some(mock)
                 THEN mock_translate(payload.text, target_lang)
             ELSE IF payload.provider = Some(google)
                 THEN translate_with_googletrans(payload.text, source_lang, target_lang,
                                                 answer, googletrans)
             ELSE translate_with_deep_translator(payload.text, source_lang, target_lang,
                                                 answer)
        is_mock == payload.provider = Some(mock)
        provider == IF payload.provider = Some(mock) THEN "mock"
                    ELSE IF payload.provider = Some(google) THEN "google-translate"
                    ELSE "deep-translator"
    IN  IF r.raised THEN r
        ELSE Return(TranslationResponse(payload.text, r.val[1],
                                        resolve_auto(source_lang),
                                        target_lang, provider, r.val[2], is_mock),
                    r.calls)

\* Variant of translate_text_simple: the provider is always set to "deep"
translate_text_simple_always_deep(payload, answer, googletrans) ==
    translate_text([payload EXCEPT !.provider = Some(deep)], answer, googletrans)

\* POST /simple
translate_text_simple(payload, answer, googletrans) ==
    translate_text([payload EXCEPT !.provider =
                        IF payload.provider = None THEN Some(deep) ELSE payload.provider],
                   answer, googletrans)

----------------------------------------------------------------------------------------------------------------------------------------
(* POST /translate-image *)

ImageTranslationResponse(extracted_text, translated_text, source_lang, target_lang, provider, ocr_confidence, is_mock) ==
    [extracted_text |-> extracted_text, translated_text |-> translated_text,
     source_lang |-> source_lang, target_lang |-> target_lang,
     provider |-> provider, ocr_confidence |-> ocr_confidence, is_mock |-> is_mock]

\* Variant of translate_image_checks: the content type is checked first
translate_image_checks_type_first(file, ocr_available) ==
    IF file.content_type = None
    THEN Raise(Exception("AttributeError",
            "'NoneType' object has no attribute 'startswith'"), <<>>)
    ELSE IF ~str_startswith(file.content_type[1], <<"i","m","a","g","e","/">>)
    THEN Raise(HTTPException(400, "File must be an image", ""), <<>>)
    ELSE IF ~ocr_available
    THEN Raise(HTTPException(503,
            "OCR engine (EasyOCR) is not initialized. Please check server logs.", ""), <<>>)
    ELSE Return(<<>>, <<>>)

\* Lines 247-255: the two checks made before the handler first suspends.
\* file.content_type is None when the upload part carries no Content-Type,
\* and None has no startswith.
translate_image_checks(file, ocr_available) ==
    IF ~ocr_available
    THEN Raise(HTTPException(503,
            "OCR engine (EasyOCR) is not initialized. Please check server logs.", ""), <<>>)
    ELSE IF file.content_type = None
    THEN Raise(Exception("AttributeError",
            "'NoneType' object has no attribute 'startswith'"), <<>>)
    ELSE IF ~str_startswith(file.content_type[1], <<"i","m","a","g","e","/">>)
    THEN Raise(HTTPException(400, "File must be an image", ""), <<>>)
    ELSE Return(<<>>, <<>>)

\* Variant of translate_image_except: every exception becomes a 500
translate_image_except_wrap_all(r) ==
    IF r.raised
    THEN Raise(HTTPException(500, "Failed to process image: ", r.exc.detail[2]), r.calls)
    ELSE r

\* Lines 309-313: HTTPException is re-raised, anything else becomes a 500.
translate_image_except(r) ==
    IF r.raised /\ r.exc.type # "HTTPException"
    THEN Raise(HTTPException(500, "Failed to process image: ", r.exc.detail[2]), r.calls)
    ELSE r

\* Lines 283-307: provider dispatch on the extracted text and the response.
translate_image_dispatch(extracted_text, ocr_confidence, target_lang, source_lang, provider, answer, googletrans) ==
    LET source == IF source_lang = None THEN auto ELSE source_lang[1]
        r == IF provider = mock
                 THEN mock_translate(extracted_text, target_lang)
             ELSE IF provider = google
                 THEN translate_with_googletrans(extracted_text, source, target_lang,
                                                 answer, googletrans)
             ELSE translate_with_deep_translator(extracted_text, source, target_lang,
                                                 answer)
        is_mock == provider = mock
        provider_name == IF provider = mock THEN "mock"
                         ELSE IF provider = google THEN "google-translate"
                         ELSE "deep-translator"
    IN  IF r.raised THEN r
        ELSE Return(ImageTranslationResponse(str_strip(extracted_text), r.val[1],
                                             IF source # auto THEN source ELSE en,
                                             target_lang, provider_name,
                                             ocr_confidence, is_mock),
                    r.calls)

\* Variant of no_text_found: only the empty string counts as no text
no_text_found_unstripped(extracted_text) == extracted_text = <<>>

\* Line 274: `not extracted_text.strip()`
no_text_found(extracted_text) == str_strip(extracted_text) = <<>>

\* Variant of average_confidence: the confidence of the first fragment
average_confidence_of_first(confidences) ==
    IF confidences # <<>> THEN Some(confidences[1]) ELSE None

\* Line 281: sum(confidences) / len(confidences) if confidences else None
average_confidence(confidences) ==
    IF confidences # <<>> THEN Some(sum(confidences) \div Len(confidences)) ELSE None

\* Lines 257-307: the body of the try block, from `await file.read()` on.
translate_image_try(target_lang, source_lang, provider, image, answer, reader, googletrans) ==
    IF image.kind = "read_raise"
    THEN Raise(Exception("Exception", image.msg), <<>>)
    ELSE IF reader = None
    THEN Raise(Exception("AttributeError",
            "'NoneType' object has no attribute 'readtext'"), <<>>)
    ELSE LET ocr_call == [engine |-> "easyocr", text |-> <<>>,
                          source |-> None, target |-> <<>>, ret |-> image]
         IN  IF image.kind = "ocr_raise"
             THEN Raise(Exception("Exception", image.msg), <<ocr_call>>)
             ELSE
             LET results == image.results
                 extracted_parts == [i \in 1..Len(results) |-> results[i].text]
                 confidences == [i \in 1..Len(results) |-> results[i].conf]
                 extracted_text == str_join(<<" ">>, extracted_parts)
             IN  IF no_text_found(extracted_text)
                 THEN Raise(HTTPException(400,
                        "No text found in image. Please upload an image with clear text.",
                        ""), <<ocr_call>>)
                 ELSE
                 LET ocr_confidence == average_confidence(confidences)
                     d == translate_image_dispatch(extracted_text, ocr_confidence,
                              target_lang, source_lang, provider, answer, googletrans)
                 IN  [d EXCEPT !.calls = <<ocr_call>> \o d.calls]

translate_image_resume(call, image, answer, reader, googletrans) ==
    translate_image_except(
        translate_image_try(call.target_lang, call.source_lang, call.provider,
                            image, answer, reader, googletrans))

----------------------------------------------------------------------------
(* POST /detect-language, GET /status, GET /languages *)

\* The response model wants a float confidence; a detection without one
\* fails validation inside the try block.
detect_language(text, detection, googletrans) ==
    LET call == [engine |-> "googletrans.detect", text |-> text,
                 source |-> None, target |-> <<>>, ret |-> detection]
    IN  IF googletrans /\ detection.kind = "raise"
        THEN Raise(HTTPException(500, "Language detection failed: ", detection.msg),
                   <<call>>)
        ELSE LET detected_code == IF googletrans THEN detection.lang ELSE en
                 confidence == IF googletrans THEN detection.confidence
                               ELSE Some(Float(5, 10))
                 language_name == dict_get(LANGUAGE_NAMES, detected_code, "Unknown")
                 calls == IF googletrans THEN <<call>> ELSE <<>>
             IN  IF confidence = None
                 THEN Raise(HTTPException(500, "Language detection failed: ",
                                          "validation error"), calls)
                 ELSE Return([detected_lang |-> detected_code,
                              language_name |-> language_name,
                              confidence |-> confidence[1]], calls)

get_translation_status(googletrans, ocr_available) ==
    Return([deep_translator |-> TRUE, googletrans |-> googletrans, mock |-> TRUE,
            image_translation_available |-> ocr_available,
            engine |-> IF ocr_available THEN Some("EasyOCR") ELSE None,
            supported_languages |-> Cardinality(DOMAIN LANGUAGE_NAMES),
            status |-> "healthy"], <<>>)

get_supported_languages ==
    Return([i \in 1..Len(LANGUAGE_ORDER) |->
               [code |-> LANGUAGE_ORDER[i], name |-> LANGUAGE_NAMES[LANGUAGE_ORDER[i]]]],
           <<>>)

----------------------------------------------------------------------------
(* Requests and what the external engines answer to them *)

Texts == {<<"a">>, <<"H","i"," ">>}
TargetLangs == {hi, ta}
SourceLangs == {None, Some(hi)}
Providers == {None, Some(deep), Some(google), Some(mock)}

TranslationRequest ==
    [text : Texts, target_lang : TargetLangs, source_lang : SourceLangs,
     provider : Providers]

ContentTypes == {None,
                 Some(<<"i","m","a","g","e","/","p","n","g">>),
                 Some(<<"t","e","x","t","/","p","l","a","i","n">>)}

ImageRequest ==
    [file : [content_type : ContentTypes], target_lang : TargetLangs,
     source_lang : SourceLangs, provider : {deep, google, mock}]

\* One OCR fragment: its text and its confidence (0.7 and 0.9)
Fragments == [text : {<<"H","i">>, <<"t","h","e","r","e">>, <<" ">>},
              conf : {Float(7, 10), Float(9, 10)}]

RECURSIVE SeqsUpTo(_, _)
SeqsUpTo(S, n) ==
    IF n = 0 THEN {<<>>}
    ELSE LET shorter == SeqsUpTo(S, n - 1)
         IN  shorter \cup {Append(q, x) : q \in {p \in shorter : Len(p) = n - 1}, x \in S}

\* `await file.read()` followed by EASYOCR_READER.readtext(image_data, detail=1)
ImageAnswers ==
    [kind : {"ok"}, results : SeqsUpTo(Fragments, MaxFrags), msg : {""}]
    \cup [kind : {"read_raise", "ocr_raise"}, results : {<<>>}, msg : UpstreamErrors]

\* translator.detect(text); "fr" is a code outside the registry
DetectionAnswers ==
    [kind : {"ok"}, lang : {en, hi, <<"f","r">>},
     confidence : {None, Some(Float(8, 10))}, msg : {""}]
    \cup [kind : {"raise"}, lang : {<<>>}, confidence : {None}, msg : UpstreamErrors]

NoRequest == [endpoint |-> "none", req |-> <<>>, out |-> Return(<<>>, <<>>)]

Completed(endpoint, req, out) == [endpoint |-> endpoint, req |-> req, out |-> out]

----------------------------------------------------------------------------
(* Startup *)

\* Variant of setup_ocr: the failure branch returns True as well
setup_ocr_always_true == {<<Some("Reader"), TRUE>>, <<None, TRUE>>}

\* setup_ocr(): <<the handle it leaves in EASYOCR_READER, the value it returns>>
setup_ocr == {<<Some("Reader"), TRUE>>, <<None, FALSE>>}

Init ==
    /\ GOOGLETRANS_AVAILABLE \in BOOLEAN
    /\ \E s \in setup_ocr : EASYOCR_READER = s[1] /\ OCR_AVAILABLE = s[2]
    /\ setup_ocr_calls = 1
    /\ suspended = <<>>
    /\ done = NoRequest

----------------------------------------------------------------------------
(* Handlers.  The event loop runs one handler at a time up to its next     *)
(* suspension; a completed call stays in done until its response is sent.  *)

RemoveAt(q, i) == SubSeq(q, 1, i - 1) \o SubSeq(q, i + 1, Len(q))

Translate ==
    /\ done = NoRequest
    /\ \E payload \in TranslationRequest, answer \in TranslatorAnswers :
        done' = Completed("/translate", payload,
                          translate_text(payload, answer, GOOGLETRANS_AVAILABLE))
    /\ UNCHANGED <<globals, suspended>>

Simple ==
    /\ done = NoRequest
    /\ \E payload \in TranslationRequest, answer \in TranslatorAnswers :
        done' = Completed("/simple", payload,
                          translate_text_simple(payload, answer, GOOGLETRANS_AVAILABLE))
    /\ UNCHANGED <<globals, suspended>>

\* /translate-image up to `await file.read()`: a failed check ends the call
TranslateImageRejected ==
    /\ done = NoRequest
    /\ \E call \in ImageRequest :
        LET c == translate_image_checks(call.file, OCR_AVAILABLE)
        IN  /\ c.raised
            /\ done' = Completed("/translate-image", call, c)
    /\ UNCHANGED <<globals, suspended>>

TranslateImageSuspend ==
    /\ Len(suspended) < MaxSuspended
    /\ \E call \in ImageRequest :
        /\ ~translate_image_checks(call.file, OCR_AVAILABLE).raised
        /\ suspended' = Append(suspended, call)
    /\ UNCHANGED <<globals, done>>

\* /translate-image from `await file.read()` to its end
TranslateImageResume ==
    /\ done = NoRequest
    /\ \E i \in 1..Len(suspended), image \in ImageAnswers, answer \in TranslatorAnswers :
        /\ done' = Completed("/translate-image", suspended[i],
                             translate_image_resume(suspended[i], image, answer,
                                                    EASYOCR_READER, GOOGLETRANS_AVAILABLE))
        /\ suspended' = RemoveAt(suspended, i)
    /\ UNCHANGED globals

DetectLanguage ==
    /\ done = NoRequest
    /\ \E text \in Texts, detection \in DetectionAnswers :
        done' = Completed("/detect-language", [text |-> text],
                          detect_language(text, detection, GOOGLETRANS_AVAILABLE))
    /\ UNCHANGED <<globals, suspended>>

Status ==
    /\ done = NoRequest
    /\ done' = Completed("/status", <<>>,
                         get_translation_status(GOOGLETRANS_AVAILABLE, OCR_AVAILABLE))
    /\ UNCHANGED <<globals, suspended>>

Languages ==
    /\ done = NoRequest
    /\ done' = Completed("/languages", <<>>, get_supported_languages)
    /\ UNCHANGED <<globals, suspended>>

\* The response (or the error) of the completed call goes out
SendResponse ==
    /\ done # NoRequest
    /\ done' = NoRequest
    /\ UNCHANGED <<globals, suspended>>

Next ==
    \/ Translate
    \/ Simple
    \/ TranslateImageRejected
    \/ TranslateImageSuspend
    \/ TranslateImageResume
    \/ DetectLanguage
    \/ Status
    \/ Languages
    \/ SendResponse

Spec == Init /\ [][Next]_vars

----------------------------------------------------------------------------
(* Vocabulary of the properties *)

IsText == done.endpoint \in {"/translate", "/simple"}
IsImage == done.endpoint = "/translate-image"
Succeeded == done # NoRequest /\ ~done.out.raised
Calls == done.out.calls

TranslationEngines == {"GoogleTranslator", "googletrans"}
TranslationCalls == {i \in 1..Len(Calls) : Calls[i].engine \in TranslationEngines}
OcrCalls == {i \in 1..Len(Calls) : Calls[i].engine = "easyocr"}

FailedWith(status_code, msg) ==
    /\ done.out.raised
    /\ done.out.exc.type = "HTTPException"
    /\ done.out.exc.status_code = status_code
    /\ done.out.exc.detail[1] = msg

OcrUnavailableMsg == "OCR engine (EasyOCR) is not initialized. Please check server logs."
ProviderUnavailableMsg == "Google Translate API not available. Install googletrans."
NoTextMsg == "No text found in image. Please upload an image with clear text."
NotAnImageMsg == "File must be an image"

IsImageType(content_type) ==
    /\ content_type # None
    /\ Len(content_type[1]) >= 6
    /\ <<content_type[1][1], content_type[1][2], content_type[1][3],
         content_type[1][4], content_type[1][5], content_type[1][6]>>
           = <<"i","m","a","g","e","/">>

\* The fragments the OCR engine returned to the completed /translate-image call
OcrReturned == OcrCalls # {} /\ Calls[1].ret.kind = "ok"
F == Calls[1].ret.results

RECURSIVE JoinedTexts(_)
JoinedTexts(frags) ==
    IF frags = <<>> THEN <<>>
    ELSE IF Len(frags) = 1 THEN frags[1].text
    ELSE frags[1].text \o <<" ">> \o JoinedTexts(Tail(frags))

IsBlank(str) == \A i \in 1..Len(str) : str[i] \in {" ", "\t", "\n", "\r"}

\* A /translate-image call got as far as choosing a provider
ReachedDispatch == IsImage /\ OcrReturned /\ ~IsBlank(JoinedTexts(F))

\* The provider the completed call selected
Selected ==
    IF IsImage THEN done.req.provider
    ELSE IF done.req.provider = None THEN "deep" ELSE done.req.provider[1]

----------------------------------------------------------------------------
(* C1: while the OCR backend is Unavailable, every /translate-image call,  *)
(* whatever its content type, provider and languages, fails with the 503   *)
(* unavailable-backend error and invokes neither the OCR engine nor a      *)
(* translation backend; no call gets past the check to be suspended.       *)
C1_OcrUnavailableAlways503 ==
    ~OCR_AVAILABLE =>
        /\ suspended = <<>>
        /\ IsImage => FailedWith(503, OcrUnavailableMsg) /\ Calls = <<>>

\* a non-image upload answered while OCR is Unavailable
C1_Witness ==
    /\ ~OCR_AVAILABLE
    /\ IsImage
    /\ ~IsImageType(done.req.file.content_type)
    /\ done.out.raised

(* C2: every request ends with a response record or with an error of       *)
(* status 400, 500 or 503; a /translate-image upload, with OCR Ready,      *)
(* whose content type is absent or not an image type fails with the 400    *)
(* invalid-input error before the OCR engine is invoked.                   *)
C2_NothingEscapes ==
    done # NoRequest =>
        /\ done.out.raised =>
              /\ done.out.exc.type = "HTTPException"
              /\ done.out.exc.status_code \in {400, 500, 503}
        /\ (IsImage /\ OCR_AVAILABLE /\ ~IsImageType(done.req.file.content_type)) =>
              FailedWith(400, NotAnImageMsg) /\ Calls = <<>>

(* C3: with the secondary engine unavailable, every request that selects   *)
(* provider "google" and reaches provider dispatch fails with the 503      *)
(* provider-unavailable error without invoking a translation backend, in   *)
(* /translate-image too (503, not re-wrapped as 500); /status reports      *)
(* googletrans false.                                                      *)
C3_SecondaryUnavailable503 ==
    ~GOOGLETRANS_AVAILABLE =>
        /\ (IsText /\ Selected = "google") =>
              FailedWith(503, ProviderUnavailableMsg) /\ Calls = <<>>
        /\ (ReachedDispatch /\ Selected = "google") =>
              FailedWith(503, ProviderUnavailableMsg) /\ TranslationCalls = {}
        /\ done.endpoint = "/status" => done.out.val.googletrans = FALSE

\* a /translate-image call that extracted text and then selected "google"
C3_Witness ==
    /\ ~GOOGLETRANS_AVAILABLE
    /\ ReachedDispatch
    /\ Selected = "google"
    /\ done.out.raised

(* C4: in every successful result of /translate, /simple and               *)
(* /translate-image, source_lang is never "auto": it is the request's      *)
(* source language when one was given and "en" when it was omitted.        *)
C4_SourceLangResolved ==
    (Succeeded /\ (IsText \/ IsImage)) =>
        /\ done.out.val.source_lang # <<"a","u","t","o">>
        /\ done.req.source_lang # None =>
              done.out.val.source_lang = done.req.source_lang[1]
        /\ done.req.source_lang = None =>
              done.out.val.source_lang = <<"e","n">>

\* a backend translated a request that gave no source language
C4_Witness ==
    /\ Succeeded
    /\ IsText \/ IsImage
    /\ done.req.source_lang = None
    /\ TranslationCalls # {}

\* "[" + uppercase(target_lang) + "] " for the target languages of the requests
MockMarker(target_lang) ==
    CASE target_lang = <<"h","i">> -> <<"[","H","I","]"," ">>
      [] target_lang = <<"t","a">> -> <<"[","T","A","]"," ">>
      [] target_lang = <<"b","n">> -> <<"[","B","N","]"," ">>

(* C5: in every successful result is_mock is true exactly when the         *)
(* request's provider is mock; then the provider name is "mock", the       *)
(* translated text is "[" + uppercase(target_lang) + "] " + the text       *)
(* given to the provider, and for text translation the confidence is 1.0.  *)
(* A mock request invokes no translation backend, and it succeeds whenever *)
(* it reaches the provider.                                                *)
C5_MockContract ==
    (IsText \/ IsImage) =>
        /\ Succeeded => (done.out.val.is_mock <=> Selected = "mock")
        /\ (Succeeded /\ done.out.val.is_mock) =>
              /\ done.out.val.provider = "mock"
              /\ done.out.val.translated_text =
                    MockMarker(done.req.target_lang)
                        \o (IF IsImage THEN JoinedTexts(F) ELSE done.req.text)
              /\ IsText => done.out.val.confidence = <<120>>
        /\ Selected = "mock" =>
              /\ TranslationCalls = {}
              /\ (IsText \/ ReachedDispatch) => Succeeded

\* a mock translation of an uploaded image
C5_Witness ==
    /\ Succeeded
    /\ IsImage
    /\ done.out.val.is_mock

(* C6: within one request at most one translation backend is invoked, at   *)
(* most once, and the OCR engine at most once; an invocation that fails    *)
(* is the last one of the request, and the request ends with an error.     *)
Failed(call) == call.ret.kind \in {"raise", "ocr_raise"}

C6_NoRetryNoFallback ==
    done # NoRequest =>
        /\ Cardinality(TranslationCalls) <= 1
        /\ Cardinality(OcrCalls) <= 1
        /\ \A i \in 1..Len(Calls) :
              Failed(Calls[i]) => i = Len(Calls) /\ done.out.raised

\* a request whose translation backend failed
C6_Witness ==
    /\ done # NoRequest
    /\ \E i \in TranslationCalls : Failed(Calls[i])
    /\ FailedWith(500, "Translation failed: ")

(* C7: a /translate or /simple request without a provider invokes the      *)
(* primary backend with the arguments, and ends with the outcome, of the   *)
(* same request with provider "deep"; and /simple ends as /translate does  *)
(* on the same request and the same backend answer.                        *)
C7_DefaultIsPrimary ==
    IsText =>
        /\ done.req.provider = None =>
              \E answer \in TranslatorAnswers :
                  /\ Len(Calls) = 1
                  /\ Calls[1].engine = "GoogleTranslator"
                  /\ Calls[1].ret = answer
                  /\ done.out = translate_text([done.req EXCEPT !.provider = <<"deep">>],
                                               answer, GOOGLETRANS_AVAILABLE)
        /\ done.endpoint = "/simple" =>
              \E answer \in TranslatorAnswers :
                  /\ Calls # <<>> => Calls[1].ret = answer
                  /\ done.out = translate_text(done.req, answer, GOOGLETRANS_AVAILABLE)

\* /simple answered a request that named no provider
C7_Witness ==
    /\ done.endpoint = "/simple"
    /\ done.req.provider = None
    /\ Succeeded

\* the text a translation provider was given by the completed call
TextTranslated ==
    IF TranslationCalls # {} THEN Calls[CHOOSE i \in TranslationCalls : TRUE].text
    ELSE SubSeq(done.out.val.translated_text, 6, Len(done.out.val.translated_text))

MeanIs(m, frags) ==
    /\ frags # <<>>
    /\ m # None
    /\ m[1] * Len(frags) = sum([i \in 1..Len(frags) |-> frags[i].conf])

StripBlanks(str) ==
    LET solid == {i \in 1..Len(str) : str[i] \notin {" ", "\t", "\n", "\r"}}
    IN  [k \in 1..Cardinality({i \in 1..Len(str) :
                                 /\ \E j \in solid : j <= i
                                 /\ \E j \in solid : j >= i}) |->
            str[k + Cardinality({i \in 1..Len(str) : \A j \in solid : i < j})]]

C9_StartupStateFrozen ==
    /\ [][/\ OCR_AVAILABLE' = OCR_AVAILABLE
          /\ EASYOCR_READER' = EASYOCR_READER
          /\ GOOGLETRANS_AVAILABLE' = GOOGLETRANS_AVAILABLE
          /\ setup_ocr_calls' = setup_ocr_calls]_vars
    /\ [](/\ setup_ocr_calls = 1
          /\ OCR_AVAILABLE <=> EASYOCR_READER # None
          /\ done.endpoint = "/status" =>
                /\ done.out.val.googletrans = GOOGLETRANS_AVAILABLE
                /\ done.out.val.image_translation_available = OCR_AVAILABLE
          /\ (IsImage /\ done.out.raised) =>
                done.out.exc.detail[2] # "'NoneType' object has no attribute 'readtext'")

\* /status answered while a /translate-image call is suspended
C9_Witness ==
    /\ done.endpoint = "/status"
    /\ suspended # <<>>

(* C10: in /translate-image with OCR Ready and an image upload, an empty   *)
(* fragment list or a blank joined text fails with the 400                 *)
(* no-text-detected error and no translation backend is invoked, for the   *)
(* mock provider too; a successful image result has at least one           *)
(* fragment, a non-blank extracted_text and a present ocr_confidence.      *)
C10_BlankTextRejected ==
    IsImage =>
        /\ (OcrReturned /\ IsBlank(JoinedTexts(F))) =>
              /\ FailedWith(400, NoTextMsg)
              /\ TranslationCalls = {}
        /\ Succeeded =>
              /\ OcrReturned
              /\ Len(F) >= 1
              /\ ~IsBlank(done.out.val.extracted_text)
              /\ done.out.val.extracted_text # <<>>
              /\ done.out.val.ocr_confidence # None

\* a whitespace-only fragment was rejected for the mock provider
C10_Witness ==
    /\ IsImage
    /\ OcrReturned
    /\ F # <<>>
    /\ IsBlank(JoinedTexts(F))
    /\ Selected = "mock"
    /\ done.out.raised

====
